---- MODULE Spec2Model ----
(***************************************************************************)
(* Model of backend/migrate_postgres_constraints.py: the duplicate audit,   *)
(* the deterministic auto-fix (user merge + row dedupes), the backup gate   *)
(* and the index apply pass of run().                                       *)
(*                                                                          *)
(* Every SQL statement of the auto-fix transaction is one step, so that a   *)
(* failing statement and the rollback of engine.begin() can be observed.    *)
(***************************************************************************)
EXTENDS Integers, FiniteSets, Sequences, TLC

\* SQL NULL / Python None of a column value.
NULL == 0

\* backup_file when --backup-file is not given.
None == "None"

(***************************************************************************)
(* Bounds of the explored databases.                                        *)
(***************************************************************************)
MaxUsers == 3
MaxRows == 2
MaxFacts == 3
MaxTime == 2
MaxRuns == 2

UserIds == 1..MaxUsers
RowIds == 1..MaxRows
FactIds == 1..MaxFacts
Times == {NULL} \cup (1..MaxTime)

VARIABLES
    dialect,        \* engine.dialect.name
    apply_changes,  \* run() argument
    auto_fix,       \* run() argument
    backup_file,    \* run() argument
    pc,             \* position inside run()
    step,           \* statement number inside _merge_users_by_key
    db,             \* tables as seen by the open connection
    committed,      \* tables as last committed
    initial,        \* tables when run() was entered
    indexes,        \* names of the indexes that exist
    created,        \* names whose CREATE statement was executed by this run
    blocked,        \* local of run(): sequence of <<rule name, group count>>
    ready,          \* local of run(): sequence of rule names
    result,         \* return value of run(), NoResult while running
    backup,         \* outcome of _maybe_run_backup
    tx_count,       \* number of engine.begin() blocks entered
    snapshot,       \* tables when the current _merge_users_by_key was called
    discarded,      \* a rollback has discarded uncommitted changes
    runs,           \* invocations of run() started so far
    origin,         \* tables when the first invocation was entered
    previous        \* how the previous invocation ended and what it left

vars == <<dialect, apply_changes, auto_fix, backup_file, pc, step, db,
          committed, initial, indexes, created, blocked, ready, result,
          backup, tx_count, snapshot, discarded, runs, origin, previous>>

\* result while run() has not returned (also when it ended by an exception).
NoResult == 0 - 1

(***************************************************************************)
(* Static configuration.                                                    *)
(***************************************************************************)
UNIQUE_CHECKS ==
    << "uq_answers_attempt_question",
       "uq_quiz_assignments_quiz_student",
       "uq_revoked_tokens_jti",
       "uq_user_token_blocks_user_id",
       "uq_users_email",
       "uq_users_student_id" >>

NON_UNIQUE_INDEXES ==
    << "ix_answers_attempt_id",
       "ix_answers_question_id",
       "ix_question_bank_subject_id",
       "ix_question_bank_creator_id",
       "ix_questions_quiz_id",
       "ix_questions_question_bank_id",
       "ix_quiz_attempts_quiz_id",
       "ix_quiz_attempts_student_id",
       "ix_quizzes_creator_id",
       "ix_quizzes_subject_id",
       "ix_subjects_creator_id" >>

Range(s) == {s[i] : i \in DOMAIN s}

UniqueNames == Range(UNIQUE_CHECKS)

\* Variant: the rewrite of user_token_blocks is missing.
MergeTargetsWithoutTokenBlocks ==
    << <<"quizzes", "creator_id">>,
       <<"subjects", "creator_id">>,
       <<"question_bank", "creator_id">>,
       <<"quiz_attempts", "student_id">>,
       <<"quiz_assignments", "student_id">> >>

\* The six statements of _merge_users_by_key that rewrite references, in
\* source order: <<table, referencing column>>.
MergeTargets ==
    << <<"quizzes", "creator_id">>,
       <<"subjects", "creator_id">>,
       <<"question_bank", "creator_id">>,
       <<"quiz_attempts", "student_id">>,
       <<"quiz_assignments", "student_id">>,
       <<"user_token_blocks", "user_id">> >>

(***************************************************************************)
(* Audit: duplicate_count_sql of every rule and _load_precheck.             *)
(***************************************************************************)
\* The values of a row in the listed columns.
KeyOf(r, columns) == [i \in DOMAIN columns |-> r[columns[i]]]

\* SELECT COUNT(*) FROM (SELECT columns FROM rows GROUP BY columns
\*                       HAVING COUNT(*) > 1)
\* GROUP BY puts NULL keys into one group, which equality on NULL models.
GroupsHavingMany(rows, columns) ==
    Cardinality({k \in {KeyOf(r, columns) : r \in rows} :
                    Cardinality({r \in rows : KeyOf(r, columns) = k}) > 1})

\* Variant: the student_id rule counts the NULL group as well.
duplicate_count_sql_with_null_group(name, d) ==
    CASE name = "uq_answers_attempt_question" ->
            GroupsHavingMany(d.answers, <<"attempt_id", "question_id">>)
      [] name = "uq_quiz_assignments_quiz_student" ->
            GroupsHavingMany(d.quiz_assignments, <<"quiz_id", "student_id">>)
      [] name = "uq_revoked_tokens_jti" ->
            GroupsHavingMany(d.revoked_tokens, <<"jti">>)
      [] name = "uq_user_token_blocks_user_id" ->
            GroupsHavingMany(d.user_token_blocks, <<"user_id">>)
      [] name = "uq_users_email" ->
            GroupsHavingMany(d.users, <<"email">>)
      [] name = "uq_users_student_id" ->
            GroupsHavingMany(d.users, <<"student_id">>)

duplicate_count_sql(name, d) ==
    CASE name = "uq_answers_attempt_question" ->
            GroupsHavingMany(d.answers, <<"attempt_id", "question_id">>)
      [] name = "uq_quiz_assignments_quiz_student" ->
            GroupsHavingMany(d.quiz_assignments, <<"quiz_id", "student_id">>)
      [] name = "uq_revoked_tokens_jti" ->
            GroupsHavingMany(d.revoked_tokens, <<"jti">>)
      [] name = "uq_user_token_blocks_user_id" ->
            GroupsHavingMany(d.user_token_blocks, <<"user_id">>)
      [] name = "uq_users_email" ->
            GroupsHavingMany(d.users, <<"email">>)
      [] name = "uq_users_student_id" ->
            GroupsHavingMany({u \in d.users : u.student_id # NULL},
                             <<"student_id">>)

\* Variant: a single duplicate group does not block.
IsBlockedAboveOne(duplicate_groups) == duplicate_groups > 1

\* if duplicate_groups > 0: blocked, else ready
IsBlocked(duplicate_groups) == duplicate_groups > 0

\* Variant: every check is appended to ready.
load_precheck_all_ready(d) ==
    LET blockedNames ==
            SelectSeq(UNIQUE_CHECKS,
                      LAMBDA c : IsBlocked(duplicate_count_sql(c, d)))
    IN  [blocked |-> [i \in 1..Len(blockedNames) |->
                        <<blockedNames[i], duplicate_count_sql(blockedNames[i], d)>>],
         ready |-> UNIQUE_CHECKS]

load_precheck(d) ==
    LET blockedNames ==
            SelectSeq(UNIQUE_CHECKS,
                      LAMBDA c : IsBlocked(duplicate_count_sql(c, d)))
        readyNames ==
            SelectSeq(UNIQUE_CHECKS,
                      LAMBDA c : ~IsBlocked(duplicate_count_sql(c, d)))
    IN  [blocked |-> [i \in 1..Len(blockedNames) |->
                        <<blockedNames[i], duplicate_count_sql(blockedNames[i], d)>>],
         ready |-> readyNames]

BlockedNames == {blocked[i][1] : i \in DOMAIN blocked}
ReadyNames == Range(ready)

(***************************************************************************)
(* _merge_users_by_key: the CTE and the statements built on it.            *)
(***************************************************************************)
Min(S) == CHOOSE x \in S : \A y \in S : x <= y

\* Variant: the WHERE clause is always TRUE.
dup_map_without_where(users, key_column, include_not_null_filter) ==
    {[old_id |-> u.id,
      keep_id |-> Min({v.id : v \in {w \in users :
                                        w[key_column] = u[key_column]}})] :
        u \in users}

\* WITH dup_map AS (SELECT id AS old_id,
\*                         MIN(id) OVER (PARTITION BY key_column) AS keep_id
\*                  FROM public.users WHERE where_clause)
dup_map(users, key_column, include_not_null_filter) ==
    LET source == {u \in users :
                      include_not_null_filter => u[key_column] # NULL}
    IN  {[old_id |-> u.id,
          keep_id |-> Min({v.id : v \in {w \in source :
                                            w[key_column] = u[key_column]}})] :
            u \in source}

\* pairs AS (SELECT old_id, keep_id FROM dup_map WHERE old_id <> keep_id)
pairs(users, key_column, include_not_null_filter) ==
    {p \in dup_map(users, key_column, include_not_null_filter) :
        p.old_id # p.keep_id}

\* Variant: the join reads WHERE t.column = p.keep_id.
UpdateFromPairsOnKeepId(rows, column, prs) ==
    {IF \E p \in prs : r[column] = p.keep_id
        THEN [r EXCEPT ![column] =
                 (CHOOSE p \in prs : p.keep_id = r[column]).keep_id]
        ELSE r : r \in rows}

\* UPDATE t SET column = p.keep_id FROM pairs p WHERE t.column = p.old_id
UpdateFromPairs(rows, column, prs) ==
    {IF \E p \in prs : r[column] = p.old_id
        THEN [r EXCEPT ![column] =
                 (CHOOSE p \in prs : p.old_id = r[column]).keep_id]
        ELSE r : r \in rows}

\* DELETE FROM public.users u USING pairs p WHERE u.id = p.old_id
DeleteUsingPairs(users, prs) ==
    {u \in users : ~(\E p \in prs : u.id = p.old_id)}

\* The whole of _merge_users_by_key: the six rewrites, which all read the
\* same users table, and then the delete.
merge_users_by_key(d, column, not_null_filter) ==
    LET prs == pairs(d.users, column, not_null_filter)
        rewritten ==
            [t \in DOMAIN d |->
                IF \E i \in DOMAIN MergeTargets : MergeTargets[i][1] = t
                   THEN UpdateFromPairs(
                            d[t],
                            MergeTargets[CHOOSE i \in DOMAIN MergeTargets :
                                            MergeTargets[i][1] = t][2],
                            prs)
                   ELSE d[t]]
    IN  [rewritten EXCEPT !.users = DeleteUsingPairs(@, prs)]

(***************************************************************************)
(* Row dedupes: ROW_NUMBER() OVER (PARTITION BY key ORDER BY ...) and the   *)
(* DELETE of every row with rn > 1.                                         *)
(***************************************************************************)
\* Variant: ORDER BY id ASC.
ByIdAscending(a, b) == a.id < b.id

\* ORDER BY id DESC: a sorts before b.
ById(a, b) == a.id > b.id

\* Variant: ORDER BY recency DESC NULLS FIRST, id DESC.
ByRecencyNullsFirst(a, b, recency) ==
    \/ a[recency] = NULL /\ b[recency] # NULL
    \/ a[recency] # NULL /\ b[recency] # NULL /\ a[recency] > b[recency]
    \/ a[recency] = b[recency] /\ a.id > b.id

\* ORDER BY recency DESC NULLS LAST, id DESC: a sorts before b.
ByRecencyThenId(a, b, recency) ==
    \/ a[recency] # NULL /\ b[recency] = NULL
    \/ a[recency] # NULL /\ b[recency] # NULL /\ a[recency] > b[recency]
    \/ a[recency] = b[recency] /\ a.id > b.id

\* order_by is <<"id">> or <<recency column, "id">>.
SortsBefore(a, b, order_by) ==
    IF Len(order_by) = 1
       THEN ById(a, b)
       ELSE ByRecencyThenId(a, b, order_by[1])

\* ROW_NUMBER() OVER (PARTITION BY partition_by ORDER BY order_by) of row r
row_number(rows, r, partition_by, order_by) ==
    1 + Cardinality({o \in rows :
                        /\ KeyOf(o, partition_by) = KeyOf(r, partition_by)
                        /\ SortsBefore(o, r, order_by)})

\* Variant: rn > 2.
DeleteRankedAboveTwo(rows, partition_by, order_by) ==
    {r \in rows : ~(row_number(rows, r, partition_by, order_by) > 2)}

\* DELETE FROM rows USING ranked WHERE id = ranked.id AND ranked.rn > 1
DeleteRanked(rows, partition_by, order_by) ==
    {r \in rows : ~(row_number(rows, r, partition_by, order_by) > 1)}

dedupe_answers(rows) ==
    DeleteRanked(rows, <<"attempt_id", "question_id">>, <<"id">>)

\* Variant: ORDER BY id DESC, as for answers.
dedupe_quiz_assignments_by_id(rows) ==
    DeleteRanked(rows, <<"quiz_id", "student_id">>, <<"id">>)

dedupe_quiz_assignments(rows) ==
    DeleteRanked(rows, <<"quiz_id", "student_id">>, <<"assigned_at", "id">>)

dedupe_revoked_tokens(rows) ==
    DeleteRanked(rows, <<"jti">>, <<"revoked_at", "id">>)

dedupe_user_token_blocks(rows) ==
    DeleteRanked(rows, <<"user_id">>, <<"revoked_before", "id">>)

\* The whole of _run_auto_fix: the email merge, the student_id merge and
\* the four row dedupes, in source order.
run_auto_fix(d) ==
    LET merged == merge_users_by_key(merge_users_by_key(d, "email", FALSE),
                                     "student_id", TRUE)
    IN  [merged EXCEPT
            !.answers = dedupe_answers(@),
            !.quiz_assignments = dedupe_quiz_assignments(@),
            !.revoked_tokens = dedupe_revoked_tokens(@),
            !.user_token_blocks = dedupe_user_token_blocks(@)]

(***************************************************************************)
(* Initial states: a database without the target indexes, and the           *)
(* arguments of one invocation of run().                                    *)
(***************************************************************************)
Max(S) == CHOOSE x \in S : \A y \in S : x >= y

\* Values that are only compared for equality (emails, student ids, jti,
\* quiz ids) are numbered in order of first use, so that every pattern of
\* equal and different values over the rows occurs once.
FirstUse(f) ==
    \A i \in DOMAIN f :
        f[i] # NULL =>
            f[i] <= 1 + Max({0} \cup {f[j] : j \in {k \in DOMAIN f : k < i /\ f[k] # NULL}})

Labellings(ids) == {f \in [ids -> ids] : FirstUse(f)}
NullableLabellings(ids) == {f \in [ids -> {NULL} \cup ids] : FirstUse(f)}
NonDecreasing(f) == \A i, j \in DOMAIN f : i <= j => f[i] <= f[j]

\* The recency of answers row i.  The tables of the source show no such
\* column for answers (migrate_to_mysql.py copies id, attempt_id,
\* question_id, answer_text, is_correct, marks_awarded); it is the timestamp
\* the dedupe-correctness property speaks of, and no statement reads it.
AnswerTimestamp(time, i) == time[i]

\* User i has email email[i] and student id sid[i]; object i of every
\* user-owned table belongs to owner[i]; fact row i has uniqueness key key[i]
\* and recency time[i].
Database(email, sid, owner, key, time) ==
    [users |-> {[id |-> i, email |-> email[i], student_id |-> sid[i]] :
                   i \in DOMAIN email},
     quizzes |-> {[id |-> i, creator_id |-> owner[i]] : i \in DOMAIN owner},
     subjects |-> {[id |-> i, creator_id |-> owner[i]] : i \in DOMAIN owner},
     question_bank |->
         {[id |-> i, creator_id |-> owner[i]] : i \in DOMAIN owner},
     quiz_attempts |->
         {[id |-> i, student_id |-> owner[i]] : i \in DOMAIN owner},
     quiz_assignments |->
         {[id |-> i, quiz_id |-> key[i], student_id |-> owner[i],
           assigned_at |-> time[i]] : i \in DOMAIN owner},
     user_token_blocks |->
         {[id |-> i, user_id |-> owner[i], revoked_before |-> time[i]] :
             i \in DOMAIN owner},
     answers |->
         {[id |-> i, attempt_id |-> key[i], question_id |-> 1,
           timestamp |-> AnswerTimestamp(time, i)] : i \in DOMAIN key},
     revoked_tokens |->
         {[id |-> i, jti |-> key[i], revoked_at |-> time[i]] :
             i \in DOMAIN key}]

\* Object i belongs to user i (modulo the number of users).
OwnOwner == [i \in RowIds |-> ((i - 1) % MaxUsers) + 1]

\* Databases of the runs of run(): any users, any keys.
OwnDatabases ==
    {Database(email, sid, OwnOwner, key, [i \in RowIds |-> 1]) :
        email \in Labellings(UserIds), sid \in NullableLabellings(UserIds),
        key \in Labellings(RowIds)}

\* Databases of the auto-fix: any users, any owners; row 1 has no recency
\* or the latest one.
Databases ==
    {Database(email, sid, owner, [i \in RowIds |-> 1], time) :
        email \in Labellings(UserIds), sid \in NullableLabellings(UserIds),
        owner \in {o \in [RowIds -> UserIds] : NonDecreasing(o)},
        time \in {t \in [RowIds -> Times] :
                     /\ t[1] \in {NULL, MaxTime}
                     /\ \A i \in RowIds : i > 1 => t[i] = 1}}

\* Databases of the re-runs: any emails, the student ids all absent or all
\* the same, any keys.
RerunDatabases ==
    {Database(email, [i \in UserIds |-> sid], OwnOwner, key,
              [i \in RowIds |-> 1]) :
        email \in Labellings(UserIds), sid \in {NULL, 1},
        key \in Labellings(RowIds)}

\* Databases of the row dedupes: users without duplicates, any keys and
\* recencies of the fact rows; row i belongs to user key[i].
FactDatabases ==
    {Database([i \in FactIds |-> i], [i \in FactIds |-> NULL], key, key, time) :
        key \in Labellings(FactIds), time \in [FactIds -> Times]}

Dialects == {"postgresql", "sqlite"}
BackupFiles == {None, "backup.dump"}

\* previous before the first invocation.
NoRun == [ended |-> "never", result |-> NoResult, indexes |-> {},
          blocked |-> <<>>, ready |-> <<>>, entry |-> << >>]

InitRun ==
    /\ runs = 1
    /\ origin = committed
    /\ previous = NoRun
    /\ db = committed
    /\ initial = committed
    /\ pc = "start"
    /\ step = 0
    /\ indexes = {}
    /\ created = {}
    /\ blocked = <<>>
    /\ ready = <<>>
    /\ result = NoResult
    /\ backup = "not_run"
    /\ tx_count = 0
    /\ snapshot = committed
    /\ discarded = FALSE

\* Any arguments, any dialect.
Init ==
    /\ dialect \in Dialects
    /\ apply_changes \in BOOLEAN
    /\ auto_fix \in BOOLEAN
    /\ backup_file \in BackupFiles
    /\ committed \in OwnDatabases
    /\ InitRun

\* run(True, True, None) on PostgreSQL at the entry of _run_auto_fix: the
\* audit has found a blocked rule and the transaction of line 403 is open.
InAutoFix(at) ==
    /\ dialect = "postgresql"
    /\ apply_changes = TRUE
    /\ auto_fix = TRUE
    /\ backup_file = None
    /\ runs = 1
    /\ origin = committed
    /\ previous = NoRun
    /\ db = committed
    /\ initial = committed
    /\ snapshot = committed
    /\ blocked = load_precheck(committed).blocked
    /\ ready = load_precheck(committed).ready
    /\ blocked # <<>>
    /\ pc = at
    /\ indexes = {}
    /\ created = {}
    /\ result = NoResult
    /\ backup = "not_run"
    /\ tx_count = 2
    /\ discarded = FALSE

InitFix ==
    /\ committed \in Databases
    /\ step = 1
    /\ InAutoFix("merge_email")

\* The same, after the two merges found no user to merge.
InitDedupe ==
    /\ committed \in FactDatabases
    /\ step = 0
    /\ InAutoFix("dedupe_answers")

(***************************************************************************)
(* run(): the flag checks, the passes and the returns.                      *)
(***************************************************************************)
Return(code) ==
    /\ result' = code
    /\ pc' = "done"

\* Variant: the test is inverted.
Falsy(file) == file = None \/ file = ""

\* if backup_file: Python truthiness of str | None
Truthy(file) == file # None /\ file # ""

\* run() lines 368-374: the two refusals before any connection is opened.
UnsupportedDialect(name) == name # "postgresql"

\* Variant: the two flags are swapped.
InvalidFlagsSwapped(apply, fix) == apply /\ ~fix

\* if auto_fix and not apply_changes
InvalidFlags(apply, fix) == fix /\ ~apply

Start ==
    /\ pc = "start"
    /\ IF UnsupportedDialect(dialect)
          THEN Return(2)
          ELSE IF InvalidFlags(apply_changes, auto_fix)
                  THEN Return(2)
                  ELSE pc' = "precheck" /\ result' = result
    /\ UNCHANGED <<runs, origin, previous, dialect, apply_changes, auto_fix, backup_file, step, db,
                   committed, initial, indexes, created, blocked, ready,
                   backup, tx_count, snapshot, discarded>>

\* Variant: the auto-fix runs whenever a rule is blocked.
any_blocked(fix, blockedRules) == blockedRules # <<>>

\* Variant: the auto-fix runs whenever it is requested.
auto_fix_and_any(fix, blockedRules) == fix

\* if auto_fix and blocked: a non-empty list is true.
auto_fix_and_blocked(fix, blockedRules) == fix /\ blockedRules # <<>>

\* run() lines 378-401: the audit transaction, the dry-run return and the
\* choice of the next pass.
Precheck ==
    /\ pc = "precheck"
    /\ LET audit == load_precheck(db)
       IN  /\ blocked' = audit.blocked
           /\ ready' = audit.ready
           /\ IF ~apply_changes
                 THEN /\ Return(IF audit.blocked # <<>> THEN 1 ELSE 0)
                      /\ tx_count' = tx_count + 1
                      /\ step' = step
                 ELSE IF auto_fix_and_blocked(auto_fix, audit.blocked)
                         THEN IF Truthy(backup_file)
                                 THEN /\ pc' = "backup"
                                      /\ tx_count' = tx_count + 1
                                      /\ step' = step
                                      /\ result' = result
                                 ELSE /\ pc' = "merge_email"
                                      /\ tx_count' = tx_count + 2
                                      /\ step' = 1
                                      /\ result' = result
                         ELSE /\ pc' = "apply"
                              /\ tx_count' = tx_count + 1
                              /\ step' = step
                              /\ result' = result
    /\ UNCHANGED <<runs, origin, previous, dialect, apply_changes, auto_fix, backup_file, db,
                   committed, initial, indexes, created, backup, snapshot,
                   discarded>>

\* _maybe_run_backup: pg_dump succeeds, is missing, or exits non-zero.
BackupOutcomes == {"ok", "FileNotFoundError", "CalledProcessError"}

\* Variant: CalledProcessError is not caught as a failure.
maybe_run_backup_unchecked(outcome) == outcome # "FileNotFoundError"

\* True when pg_dump ran and exited 0, False on either exception.
maybe_run_backup(outcome) == outcome = "ok"

Backup ==
    /\ pc = "backup"
    /\ \E outcome \in BackupOutcomes :
          /\ backup' = outcome
          /\ IF ~maybe_run_backup(outcome)
                THEN /\ Return(2)
                     /\ UNCHANGED <<step, tx_count>>
                ELSE /\ pc' = "merge_email"
                     /\ step' = 1
                     /\ tx_count' = tx_count + 1
                     /\ result' = result
    /\ UNCHANGED <<runs, origin, previous, dialect, apply_changes, auto_fix, backup_file, db,
                   committed, initial, indexes, created, blocked, ready,
                   snapshot, discarded>>

(***************************************************************************)
(* _run_auto_fix inside engine.begin(): one action per statement.           *)
(***************************************************************************)
MergePcs == {"merge_email", "merge_student_id"}

key_column == IF pc = "merge_email" THEN "email" ELSE "student_id"
include_not_null_filter == pc = "merge_student_id"

UnchangedByStatement ==
    UNCHANGED <<runs, origin, previous, dialect, apply_changes, auto_fix, backup_file, committed,
                initial, indexes, created, blocked, ready, result, backup,
                tx_count, discarded>>

\* lines 220-225: statement number step rewrites one referencing table.
MergeRewrite ==
    /\ pc \in MergePcs
    /\ step \in 1..Len(MergeTargets)
    /\ LET prs == pairs(db.users, key_column, include_not_null_filter)
           target == MergeTargets[step]
       IN  db' = [db EXCEPT ![target[1]] =
                      UpdateFromPairs(@, target[2], prs)]
    /\ step' = step + 1
    /\ pc' = pc
    /\ snapshot' = snapshot
    /\ UnchangedByStatement

\* lines 227-228: the delete of the non-survivor users rows.
MergeDelete ==
    /\ pc \in MergePcs
    /\ step = Len(MergeTargets) + 1
    /\ db' = [db EXCEPT !.users =
                 DeleteUsingPairs(@, pairs(@, key_column,
                                           include_not_null_filter))]
    /\ IF pc = "merge_email"
          THEN pc' = "merge_student_id" /\ step' = 1 /\ snapshot' = db'
          ELSE pc' = "dedupe_answers" /\ step' = 0 /\ snapshot' = snapshot
    /\ UnchangedByStatement

DedupeAnswers ==
    /\ pc = "dedupe_answers"
    /\ db' = [db EXCEPT !.answers = dedupe_answers(@)]
    /\ pc' = "dedupe_quiz_assignments"
    /\ step' = step
    /\ snapshot' = snapshot
    /\ UnchangedByStatement

DedupeQuizAssignments ==
    /\ pc = "dedupe_quiz_assignments"
    /\ db' = [db EXCEPT !.quiz_assignments = dedupe_quiz_assignments(@)]
    /\ pc' = "dedupe_revoked_tokens"
    /\ step' = step
    /\ snapshot' = snapshot
    /\ UnchangedByStatement

DedupeRevokedTokens ==
    /\ pc = "dedupe_revoked_tokens"
    /\ db' = [db EXCEPT !.revoked_tokens = dedupe_revoked_tokens(@)]
    /\ pc' = "dedupe_user_token_blocks"
    /\ step' = step
    /\ snapshot' = snapshot
    /\ UnchangedByStatement

DedupeUserTokenBlocks ==
    /\ pc = "dedupe_user_token_blocks"
    /\ db' = [db EXCEPT !.user_token_blocks = dedupe_user_token_blocks(@)]
    /\ pc' = "commit_fix"
    /\ step' = step
    /\ snapshot' = snapshot
    /\ UnchangedByStatement

AutoFixPcs ==
    MergePcs \cup {"dedupe_answers", "dedupe_quiz_assignments",
                   "dedupe_revoked_tokens", "dedupe_user_token_blocks"}

\* Variant: the statements before the failing one stay committed.
StatementFailsWithoutRollback ==
    /\ pc \in AutoFixPcs
    /\ committed' = db
    /\ discarded' = FALSE
    /\ pc' = "raised"
    /\ UNCHANGED <<runs, origin, previous, dialect, apply_changes, auto_fix, backup_file, step, db,
                   initial, indexes, created, blocked, ready, result, backup,
                   tx_count, snapshot>>

\* A statement of the auto-fix raises: engine.begin() rolls the transaction
\* back and the exception leaves run() and main().
StatementFails ==
    /\ pc \in AutoFixPcs
    /\ db' = committed
    /\ committed' = committed
    /\ discarded' = (db # committed)
    /\ pc' = "raised"
    /\ UNCHANGED <<runs, origin, previous, dialect, apply_changes, auto_fix, backup_file, step,
                   initial, indexes, created, blocked, ready, result, backup,
                   tx_count, snapshot>>

\* The with block of line 403 ends: the transaction commits.
CommitAutoFix ==
    /\ pc = "commit_fix"
    /\ committed' = db
    /\ pc' = "recheck"
    /\ UNCHANGED <<runs, origin, previous, dialect, apply_changes, auto_fix, backup_file, step, db,
                   initial, indexes, created, blocked, ready, result, backup,
                   tx_count, snapshot, discarded>>

\* lines 406-414: the audit after the auto-fix.
Recheck ==
    /\ pc = "recheck"
    /\ LET audit == load_precheck(db)
       IN  /\ blocked' = audit.blocked
           /\ ready' = audit.ready
    /\ tx_count' = tx_count + 1
    /\ pc' = "apply"
    /\ UNCHANGED <<runs, origin, previous, dialect, apply_changes, auto_fix, backup_file, step, db,
                   committed, initial, indexes, created, result, backup,
                   snapshot, discarded>>

\* lines 416-431: the unique index of every ready rule, every non-unique
\* index, and the return code.
\* Variant: the loop runs over UNIQUE_CHECKS instead of ready.
AppliedIndexesOfAllChecks(readyRules) ==
    Range(UNIQUE_CHECKS) \cup Range(NON_UNIQUE_INDEXES)

AppliedIndexes(readyRules) == Range(readyRules) \cup Range(NON_UNIQUE_INDEXES)

\* Every create_sql reads CREATE [UNIQUE] INDEX IF NOT EXISTS.
IF_NOT_EXISTS == TRUE

\* Variant: the statements read CREATE [UNIQUE] INDEX, without IF NOT EXISTS.
relation_already_exists_unguarded(existing, names, if_not_exists) ==
    names \cap existing # {}

\* PostgreSQL raises "relation already exists" when a CREATE INDEX without
\* IF NOT EXISTS names an existing index; with it the statement is skipped.
relation_already_exists(existing, names, if_not_exists) ==
    ~if_not_exists /\ names \cap existing # {}

Apply ==
    /\ pc = "apply"
    /\ tx_count' = tx_count + 1
    /\ IF relation_already_exists(indexes, AppliedIndexes(ready),
                                  IF_NOT_EXISTS)
          THEN /\ pc' = "raised"
               /\ UNCHANGED <<indexes, created, result>>
          ELSE /\ indexes' = indexes \cup AppliedIndexes(ready)
               /\ created' = created \cup AppliedIndexes(ready)
               /\ Return(IF blocked # <<>> THEN 1 ELSE 0)
    /\ UNCHANGED <<runs, origin, previous, dialect, apply_changes, auto_fix, backup_file, step, db,
                   committed, initial, blocked, ready, backup, snapshot,
                   discarded>>

(***************************************************************************)
(* The process around run(): it can be killed at any point, and the         *)
(* operator can invoke the script again with the same arguments.            *)
(***************************************************************************)
RunningPcs ==
    {"start", "precheck", "backup", "commit_fix", "recheck", "apply"}
        \cup AutoFixPcs

\* Variant: what the open transaction has written stays in the tables.
CrashKeepingOpenTransaction ==
    /\ pc \in RunningPcs
    /\ committed' = db
    /\ pc' = "crashed"
    /\ UNCHANGED <<runs, origin, previous, dialect, apply_changes, auto_fix,
                   backup_file, step, db, initial, indexes, created,
                   blocked, ready, result, backup, tx_count, snapshot,
                   discarded>>

\* The process dies while run() executes: the open transaction, if any, is
\* never committed, so the tables are as last committed.  A death after the
\* commit of the apply transaction leaves what a completed run leaves.
Crash ==
    /\ pc \in RunningPcs
    /\ db' = committed
    /\ pc' = "crashed"
    /\ UNCHANGED <<runs, origin, previous, dialect, apply_changes, auto_fix,
                   backup_file, step, committed, initial, indexes, created,
                   blocked, ready, result, backup, tx_count, snapshot,
                   discarded>>

\* main() is invoked again with the same arguments on the database as the
\* previous invocation left it.
Rerun ==
    /\ pc \in {"done", "raised", "crashed"}
    /\ runs < MaxRuns
    /\ runs' = runs + 1
    /\ previous' = [ended |-> pc, result |-> result, indexes |-> indexes,
                    blocked |-> blocked, ready |-> ready, entry |-> initial]
    /\ pc' = "start"
    /\ step' = 0
    /\ db' = committed
    /\ initial' = committed
    /\ snapshot' = committed
    /\ created' = {}
    /\ blocked' = <<>>
    /\ ready' = <<>>
    /\ result' = NoResult
    /\ backup' = "not_run"
    /\ tx_count' = 0
    /\ discarded' = FALSE
    /\ UNCHANGED <<origin, dialect, apply_changes, auto_fix, backup_file,
                   committed, indexes>>

Next ==
    \/ Start
    \/ Precheck
    \/ Backup
    \/ MergeRewrite
    \/ MergeDelete
    \/ DedupeAnswers
    \/ DedupeQuizAssignments
    \/ DedupeRevokedTokens
    \/ DedupeUserTokenBlocks
    \/ StatementFails
    \/ CommitAutoFix
    \/ Recheck
    \/ Apply

Spec == Init /\ [][Next]_vars

\* The passes from _run_auto_fix on.
NextFix ==
    \/ MergeRewrite
    \/ MergeDelete
    \/ DedupeAnswers
    \/ DedupeQuizAssignments
    \/ DedupeRevokedTokens
    \/ DedupeUserTokenBlocks
    \/ StatementFails
    \/ CommitAutoFix
    \/ Recheck
    \/ Apply

SpecFix == InitFix /\ [][NextFix]_vars

\* Invocations of run() on PostgreSQL, with crashes and re-runs.
InitRerun ==
    /\ dialect = "postgresql"
    /\ apply_changes \in BOOLEAN
    /\ auto_fix \in BOOLEAN
    /\ backup_file \in BackupFiles
    /\ committed \in RerunDatabases
    /\ InitRun

NextRerun ==
    \/ Start
    \/ Precheck
    \/ Backup
    \/ MergeRewrite
    \/ MergeDelete
    \/ DedupeAnswers
    \/ DedupeQuizAssignments
    \/ DedupeRevokedTokens
    \/ DedupeUserTokenBlocks
    \/ StatementFails
    \/ CommitAutoFix
    \/ Recheck
    \/ Apply
    \/ Crash
    \/ Rerun

SpecRerun == InitRerun /\ [][NextRerun]_vars

\* The four row dedupes of _run_auto_fix and its commit.
NextDedupe ==
    \/ DedupeAnswers
    \/ DedupeQuizAssignments
    \/ DedupeRevokedTokens
    \/ DedupeUserTokenBlocks
    \/ CommitAutoFix

SpecDedupe == InitDedupe /\ [][NextDedupe]_vars

\* Exit status of the process: SystemExit(run(...)), or 1 when an exception
\* escapes main().
ExitCode == IF pc = "raised" THEN 1 ELSE result

TypeOK ==
    /\ pc \in {"start", "precheck", "backup", "commit_fix", "recheck",
               "apply", "done", "raised", "crashed"} \cup AutoFixPcs
    /\ runs \in 1..MaxRuns
    /\ result \in {NoResult, 0, 1, 2}
    /\ backup \in {"not_run"} \cup BackupOutcomes

(***************************************************************************)
(* Vocabulary of the properties.                                            *)
(***************************************************************************)
\* The rows a uniqueness rule speaks about, and the key it wants unique.
RuleRows(name, d) ==
    CASE name = "uq_answers_attempt_question" -> d.answers
      [] name = "uq_quiz_assignments_quiz_student" -> d.quiz_assignments
      [] name = "uq_revoked_tokens_jti" -> d.revoked_tokens
      [] name = "uq_user_token_blocks_user_id" -> d.user_token_blocks
      [] name = "uq_users_email" -> d.users
      [] name = "uq_users_student_id" -> {u \in d.users : u.student_id # NULL}

RuleKey(name, r) ==
    CASE name = "uq_answers_attempt_question" -> <<r.attempt_id, r.question_id>>
      [] name = "uq_quiz_assignments_quiz_student" -> <<r.quiz_id, r.student_id>>
      [] name = "uq_revoked_tokens_jti" -> <<r.jti>>
      [] name = "uq_user_token_blocks_user_id" -> <<r.user_id>>
      [] name = "uq_users_email" -> <<r.email>>
      [] name = "uq_users_student_id" -> <<r.student_id>>

\* Two different rows of the rule's table share the rule's key.
HasDuplicate(name, d) ==
    \E a, b \in RuleRows(name, d) :
        a.id # b.id /\ RuleKey(name, a) = RuleKey(name, b)

SomeDuplicate(d) == \E name \in UniqueNames : HasDuplicate(name, d)

\* Nothing of the database or of its indexes differs from the entry of run().
Untouched ==
    /\ db = initial
    /\ committed = initial
    /\ indexes = {}
    /\ created = {}

BackupFailed == backup \in {"FileNotFoundError", "CalledProcessError"}

(***************************************************************************)
(* C1                                                                       *)
(***************************************************************************)
\* C1: a unique index is created only for a rule that the latest audit put
\* in ready, and never while the committed table of the rule still holds two
\* rows with the same key.
C1_IndexOnlyWhenReady ==
    \A name \in UniqueNames :
        name \in created =>
            /\ name \in ReadyNames
            /\ name \notin BlockedNames
            /\ ~HasDuplicate(name, committed)

\* A blocked rule was repaired by the auto-fix and its index then created.
C1_Witness ==
    /\ pc = "done"
    /\ \E name \in UniqueNames :
          name \in created /\ HasDuplicate(name, initial)

(***************************************************************************)
(* C2                                                                       *)
(***************************************************************************)
\* The referencing columns the merge has to follow, as the claim lists them.
ReferencingColumns ==
    { <<"quizzes", "creator_id">>, <<"subjects", "creator_id">>,
      <<"question_bank", "creator_id">>, <<"quiz_attempts", "student_id">>,
      <<"quiz_assignments", "student_id">>, <<"user_token_blocks", "user_id">> }

IdsOf(rows) == {r.id : r \in rows}

\* The users a merge on column treats as one: same value, NULL student ids
\* apart.
SameIdentity(users, column, u) ==
    IF column = "student_id" /\ u.student_id = NULL
       THEN {u}
       ELSE {v \in users : v[column] = u[column]}

SurvivorId(users, column, id) ==
    LET u == CHOOSE v \in users : v.id = id
    IN  Min(IdsOf(SameIdentity(users, column, u)))

NoDanglingReference(d) ==
    \A t \in ReferencingColumns :
        \A r \in d[t[1]] : r[t[2]] \in IdsOf(d.users)

MergeCorrect(before, after, column) ==
    /\ \A u \in before.users :
          Cardinality(SameIdentity(before.users, column, u)) > 1 =>
              {v \in after.users : v[column] = u[column]} =
                  {v \in before.users :
                      v.id = SurvivorId(before.users, column, u.id)}
    /\ \A t \in ReferencingColumns :
          \A r \in before[t[1]] :
              r[t[2]] \in IdsOf(before.users) \ IdsOf(after.users) =>
                  \E r2 \in after[t[1]] :
                      /\ r2.id = r.id
                      /\ r2[t[2]] = SurvivorId(before.users, column, r[t[2]])
    /\ NoDanglingReference(before) => NoDanglingReference(after)

\* C2: when _merge_users_by_key has completed, every duplicate key value is
\* left with exactly the smallest-id row of its group, every reference to a
\* removed user points at the survivor, and references that all pointed at
\* existing users still do, also after the email merge followed by the
\* student_id merge.
C2_MergeCorrect ==
    /\ (pc = "merge_student_id" /\ step = 1) =>
          MergeCorrect(committed, db, "email")
    /\ pc = "dedupe_answers" =>
          /\ MergeCorrect(snapshot, db, "student_id")
          /\ NoDanglingReference(committed) => NoDanglingReference(db)

\* Both merges removed a user and the references of a removed user moved.
C2_Witness ==
    /\ pc = "dedupe_answers"
    /\ Cardinality(snapshot.users) < Cardinality(committed.users)
    /\ Cardinality(db.users) < Cardinality(snapshot.users)
    /\ db.quizzes # snapshot.quizzes
    /\ snapshot.user_token_blocks # committed.user_token_blocks

(***************************************************************************)
(* C3, C4                                                                   *)
(***************************************************************************)
\* The rows of a table that share the values of row r in the key columns.
GroupOf(rows, columns, r) ==
    {o \in rows : \A i \in DOMAIN columns : o[columns[i]] = r[columns[i]]}

\* Row a is ranked before row b: a recency beats no recency, a later recency
\* beats an earlier one, and on equal recency the higher id wins.
RankedBefore(a, b, recency) ==
    LET has(r) == IF r[recency] = NULL THEN 0 ELSE 1
    IN  \/ has(a) > has(b)
        \/ has(a) = has(b) /\ a[recency] > b[recency]
        \/ has(a) = has(b) /\ a[recency] = b[recency] /\ a.id > b.id

FirstByRecency(group, recency) ==
    CHOOSE r \in group : \A o \in group \ {r} : RankedBefore(r, o, recency)

HighestId(group) == CHOOSE r \in group : \A o \in group : r.id >= o.id

AnswerKey == <<"attempt_id", "question_id">>

RankOneKept(before, after, columns, recency) ==
    after = {r \in before :
                r = FirstByRecency(GroupOf(before, columns, r), recency)}

\* C4: the dedupes of quiz_assignments, revoked_tokens and user_token_blocks
\* keep of every key group exactly the row that is first by recency
\* descending, null recency last, then id descending, and touch nothing else.
C4_RankOneKept ==
    [][/\ (pc = "dedupe_quiz_assignments" /\ pc' = "dedupe_revoked_tokens") =>
             /\ RankOneKept(db.quiz_assignments, db'.quiz_assignments,
                            <<"quiz_id", "student_id">>, "assigned_at")
             /\ \A t \in DOMAIN db \ {"quiz_assignments"} : db'[t] = db[t]
       /\ (pc = "dedupe_revoked_tokens" /\ pc' = "dedupe_user_token_blocks") =>
             /\ RankOneKept(db.revoked_tokens, db'.revoked_tokens,
                            <<"jti">>, "revoked_at")
             /\ \A t \in DOMAIN db \ {"revoked_tokens"} : db'[t] = db[t]
       /\ (pc = "dedupe_user_token_blocks" /\ pc' = "commit_fix") =>
             /\ RankOneKept(db.user_token_blocks, db'.user_token_blocks,
                            <<"user_id">>, "revoked_before")
             /\ \A t \in DOMAIN db \ {"user_token_blocks"} : db'[t] = db[t]
      ]_vars

\* The three dedupes have run; a kept row has a lower id than a deleted row
\* of its group, and a deleted row had no recency.
C4_Witness ==
    /\ pc = "commit_fix"
    /\ \E r \in db.quiz_assignments :
          \E o \in committed.quiz_assignments \ db.quiz_assignments :
              o.quiz_id = r.quiz_id /\ o.student_id = r.student_id /\ o.id > r.id
    /\ \E r \in db.revoked_tokens :
          \E o \in committed.revoked_tokens \ db.revoked_tokens :
              o.jti = r.jti /\ o.revoked_at = NULL
    /\ \E r \in db.user_token_blocks :
          \E o \in committed.user_token_blocks \ db.user_token_blocks :
              o.user_id = r.user_id /\ o.revoked_before = r.revoked_before

(***************************************************************************)
(* C5                                                                       *)
(***************************************************************************)
\* C5: once the auto-fix has committed, no rule has a duplicate left and the
\* re-check audit reports every rule ready; the run then creates the six
\* unique indexes and returns 0.  Where two users shared an email (and no
\* student id was shared), the one with the higher id is gone and its
\* quizzes belong to the one with the lower id.
C5_AutoFixCleans ==
    /\ pc \in {"recheck", "apply", "done"} => ~SomeDuplicate(committed)
    /\ pc \in {"apply", "done"} =>
          blocked = <<>> /\ ReadyNames = UniqueNames
    /\ pc = "done" =>
          /\ result = 0
          /\ UniqueNames \subseteq created
          /\ UniqueNames \subseteq indexes
          /\ ~HasDuplicate("uq_users_student_id", initial) =>
                \A a, b \in initial.users :
                    (a.email = b.email /\ a.id < b.id
                        /\ a.id = SurvivorId(initial.users, "email", b.id)) =>
                        /\ b.id \notin IdsOf(committed.users)
                        /\ a.id \in IdsOf(committed.users)
                        /\ \A q \in initial.quizzes :
                              q.creator_id = b.id =>
                                  [id |-> q.id, creator_id |-> a.id]
                                      \in committed.quizzes

\* The run returned 0 after removing a user that shared an email and
\* handing its quiz to the survivor.
C5_Witness ==
    /\ pc = "done"
    /\ result = 0
    /\ "uq_users_email" \in indexes
    /\ ~HasDuplicate("uq_users_student_id", initial)
    /\ \E a, b \in initial.users :
          /\ a.email = b.email /\ a.id < b.id
          /\ b.id \notin IdsOf(committed.users)
          /\ \E q \in initial.quizzes :
                /\ q.creator_id = b.id
                /\ [id |-> q.id, creator_id |-> a.id] \in committed.quizzes

(***************************************************************************)
(* C6                                                                       *)
(***************************************************************************)
\* C6: when the backup invocation fails, run returns 2 and has deleted no
\* row, rewritten no reference and created no index.
C6_BackupFailureStops ==
    BackupFailed =>
        /\ apply_changes /\ auto_fix /\ backup_file # None
        /\ blocked # <<>>
        /\ pc = "done"
        /\ result = 2
        /\ Untouched

\* pg_dump exited non-zero on a database that has duplicates.
C6_Witness ==
    /\ backup = "CalledProcessError"
    /\ pc = "done"
    /\ SomeDuplicate(initial)

(***************************************************************************)
(* C7                                                                       *)
(***************************************************************************)
Mutated == db # initial \/ committed # initial

\* C7 as claimed: rows are deleted or references rewritten only after a
\* backup has completed successfully or the operator has given an explicit
\* override; run() and main() take no override, so only the backup counts.
C7_BackupOrOverride == Mutated => backup = "ok"

\* C7 as amended: rows are deleted or references rewritten only after a
\* backup has completed successfully, or when no backup file was given.
C7_BackupOrNoBackupFile == Mutated => (backup = "ok" \/ backup_file = None)

\* The auto-fix has changed rows after a successful backup.
C7_Witness ==
    /\ Mutated
    /\ backup = "ok"
    /\ backup_file # None

(***************************************************************************)
(* C8                                                                       *)
(***************************************************************************)
\* C8: when a statement of the auto-fix fails, every table is as it was
\* before the dedupe pass, no index is created and the exit status is not 0.
C8_FailureRollsBack ==
    pc = "raised" =>
        /\ committed = initial
        /\ db = initial
        /\ indexes = {}
        /\ created = {}
        /\ result = NoResult
        /\ ExitCode # 0

\* A statement failed after earlier statements had already changed rows.
C8_Witness ==
    /\ pc = "raised"
    /\ discarded

(***************************************************************************)
(* C9                                                                       *)
(***************************************************************************)
\* C9: a dry run on PostgreSQL only audits: no row, reference or index
\* changes and no backup runs, whatever backup_file is; it returns 1 when a
\* rule has a duplicate and 0 otherwise.
C9_DryRunOnlyAudits ==
    (dialect = "postgresql" /\ ~apply_changes /\ ~auto_fix) =>
        /\ Untouched
        /\ backup = "not_run"
        /\ pc \in {"start", "precheck", "done"}
        /\ pc = "done" =>
              /\ tx_count = 1
              /\ result = IF SomeDuplicate(initial) THEN 1 ELSE 0

\* A dry run with a backup file given has returned 1.
C9_Witness ==
    /\ dialect = "postgresql" /\ ~apply_changes /\ ~auto_fix
    /\ backup_file # None
    /\ pc = "done"
    /\ result = 1

(***************************************************************************)
(* C10                                                                      *)
(***************************************************************************)
\* C10: on another dialect, or with auto_fix without apply, run returns 2
\* without opening a transaction, auditing, backing up or changing anything;
\* and whenever run returns 2 nothing has been changed.
C10_RefusalsTouchNothing ==
    /\ (dialect # "postgresql" \/ (auto_fix /\ ~apply_changes)) =>
          /\ pc \in {"start", "done"}
          /\ pc = "done" => result = 2
          /\ tx_count = 0
          /\ blocked = <<>> /\ ready = <<>>
          /\ backup = "not_run"
          /\ Untouched
    /\ result = 2 => Untouched

\* --auto-fix without --apply on PostgreSQL has been refused.
C10_Witness ==
    /\ dialect = "postgresql" /\ auto_fix /\ ~apply_changes
    /\ pc = "done"
    /\ result = 2

(***************************************************************************)
(* C11                                                                      *)
(***************************************************************************)
AllIndexes == UniqueNames \cup Range(NON_UNIQUE_INDEXES)

\* C11: when no rule has a duplicate, so that the audit reports all six
\* rules ready, a run with apply and auto_fix (with or without backup_file)
\* runs no backup and no deduplication, deletes no row and rewrites no
\* reference, audits once, creates the indexes and returns 0.
C11_NoOpWhenAllReady ==
    (dialect = "postgresql" /\ apply_changes /\ auto_fix
        /\ ~SomeDuplicate(initial)) =>
        /\ db = initial
        /\ committed = initial
        /\ backup = "not_run"
        /\ pc \in {"start", "precheck", "apply", "done"}
        /\ pc \in {"apply", "done"} =>
              blocked = <<>> /\ ready = UNIQUE_CHECKS
        /\ pc = "done" =>
              /\ result = 0
              /\ created = AllIndexes
              /\ indexes = AllIndexes
              /\ tx_count = 2

\* Such a run, given a backup file, has returned 0 without a backup.
C11_Witness ==
    /\ dialect = "postgresql" /\ apply_changes /\ auto_fix
    /\ backup_file # None
    /\ ~SomeDuplicate(initial)
    /\ pc = "done"
    /\ result = 0
    /\ backup = "not_run"

(***************************************************************************)
(* C12                                                                      *)
(***************************************************************************)
\* C12: after a run with apply has returned 0, a second run with the same
\* flags deletes no row and rewrites no reference, runs no backup and no
\* deduplication, leaves the set of indexes as it was, does not end by an
\* error when it issues the creation of the existing indexes again, and
\* returns 0.
C12_RerunIsIdempotent ==
    (runs > 1 /\ apply_changes
        /\ previous.ended = "done" /\ previous.result = 0) =>
        /\ db = initial
        /\ committed = initial
        /\ indexes = previous.indexes
        /\ indexes = AllIndexes
        /\ backup = "not_run"
        /\ pc \in {"start", "precheck", "apply", "done", "crashed"}
        /\ pc = "done" =>
              /\ result = 0
              /\ created = AllIndexes

\* The first run removed duplicates and returned 0; the second run has
\* returned 0 as well.
C12_Witness ==
    /\ runs = 2
    /\ apply_changes /\ auto_fix
    /\ previous.ended = "done" /\ previous.result = 0
    /\ origin # committed
    /\ pc = "done"
    /\ result = 0

(***************************************************************************)
(* C13                                                                      *)
(***************************************************************************)
\* C13: when run has gone through the apply pass, the unique indexes it
\* issued are exactly those of the rules the latest audit found ready, which
\* are the rules without a duplicate in the committed tables; it returns 1
\* when a rule was still blocked, and 0 only when none was and all six
\* unique indexes were issued.
C13_PartialApply ==
    (apply_changes /\ pc = "done" /\ result # 2) =>
        /\ created \cap UniqueNames = ReadyNames
        /\ created \cap BlockedNames = {}
        /\ BlockedNames \cup ReadyNames = UniqueNames
        /\ \A name \in UniqueNames :
              name \in BlockedNames <=> HasDuplicate(name, committed)
        /\ blocked # <<>> => result = 1
        /\ result = 0 =>
              /\ blocked = <<>>
              /\ UniqueNames \subseteq created
        /\ result \in {0, 1}

\* An apply run has returned 1 after creating the index of a ready rule and
\* leaving out the index of a blocked one.
C13_Witness ==
    /\ apply_changes
    /\ pc = "done"
    /\ result = 1
    /\ \E name \in UniqueNames : name \in created
    /\ \E name \in UniqueNames : name \in BlockedNames /\ name \notin indexes

(***************************************************************************)
(* C14                                                                      *)
(***************************************************************************)
\* The state of the orchestration state machine a position of run() is in;
\* REPORT_ONLY is the printing of the report before the dry-run return.
Phase(at) ==
    CASE at = "start" -> "START"
      [] at = "precheck" -> "PRECHECK"
      [] at = "backup" -> "BACKUP"
      [] at \in AutoFixPcs \cup {"commit_fix"} -> "DEDUPE"
      [] at = "recheck" -> "RECHECK"
      [] at = "apply" -> "APPLY"
      [] at = "done" -> "DONE"
      [] at = "raised" -> "FAILED"
      [] OTHER -> "CRASHED"

BlockedWithoutFix ==
    dialect = "postgresql" /\ ~auto_fix /\ SomeDuplicate(initial)

\* C14 as claimed: when the precheck finds a rule blocked and auto-fix is
\* not requested, the run goes PRECHECK -> REPORT_ONLY -> DONE: it never
\* enters APPLY, BACKUP or DEDUPE and creates no index, with and without
\* apply.
C14_ReportOnly ==
    BlockedWithoutFix =>
        /\ Phase(pc) \in {"START", "PRECHECK", "DONE"}
        /\ Untouched
        /\ backup = "not_run"

\* C14 as amended: when the precheck finds a rule blocked and auto-fix is
\* not requested, the run never enters BACKUP, DEDUPE or RECHECK and changes
\* no row; without apply it goes PRECHECK -> REPORT_ONLY -> DONE, creates no
\* index and returns 1; with apply it goes PRECHECK -> APPLY -> DONE, creates
\* the indexes of the ready rules only and returns 1.
C14_ReportOrPartialApply ==
    BlockedWithoutFix =>
        /\ db = initial
        /\ committed = initial
        /\ backup = "not_run"
        /\ pc = "done" => result = 1
        /\ IF apply_changes
              THEN /\ Phase(pc) \in {"START", "PRECHECK", "APPLY", "DONE"}
                   /\ Phase(pc) \in {"START", "PRECHECK", "APPLY"} =>
                         created = {}
                   /\ pc = "done" =>
                         /\ tx_count = 2
                         /\ created \cap UniqueNames = ReadyNames
                         /\ ReadyNames # UniqueNames
              ELSE /\ Phase(pc) \in {"START", "PRECHECK", "DONE"}
                   /\ created = {}
                   /\ indexes = {}
                   /\ pc = "done" => tx_count = 1

\* A run with apply and without auto-fix found a rule blocked, went through
\* APPLY and created the index of a ready rule.
C14_Witness ==
    /\ BlockedWithoutFix
    /\ apply_changes
    /\ pc = "done"
    /\ tx_count = 2
    /\ \E name \in UniqueNames : name \in created

(***************************************************************************)
(* C15                                                                      *)
(***************************************************************************)
\* What a run that is neither interrupted nor refused by the backup gate
\* leaves of the tables d, and what it returns.
UninterruptedTables(d) ==
    IF apply_changes /\ auto_fix THEN run_auto_fix(d) ELSE d

\* final is UninterruptedTables of the initial tables.
UninterruptedIndexes(final) ==
    IF apply_changes
       THEN {name \in UniqueNames : ~HasDuplicate(name, final)}
                \cup Range(NON_UNIQUE_INDEXES)
       ELSE {}

UninterruptedCode(final) == IF SomeDuplicate(final) THEN 1 ELSE 0

\* C15: whatever the point at which the process dies, the committed tables
\* are the initial ones or the fully deduplicated ones, never something in
\* between, and the indexes are the initial ones or the applied ones, which
\* exist only on top of the final tables; every reference names an existing
\* user; and a run that completes, after any crash and re-run with the same
\* flags, leaves the tables and indexes and returns the code of an
\* uninterrupted run.  Without auto-fix the tables stay the initial ones.
C15_CrashResumption ==
    LET final == UninterruptedTables(origin)
    IN  /\ committed # origin => committed = final
        /\ indexes # {} =>
              /\ indexes = UninterruptedIndexes(final)
              /\ committed = final
        /\ NoDanglingReference(committed)
        /\ pc = "crashed" => db = committed
        /\ (pc = "done" /\ result # 2) =>
              /\ committed = final
              /\ indexes = UninterruptedIndexes(final)
              /\ result = UninterruptedCode(final)

\* The process died after the auto-fix had committed and before the apply
\* pass; the second invocation started from the deduplicated tables and has
\* returned 0.
C15_Witness ==
    /\ runs = 2
    /\ previous.ended = "crashed"
    /\ previous.indexes = {}
    /\ initial # origin
    /\ pc = "done"
    /\ result = 0
    /\ indexes # {}

(***************************************************************************)
(* C16                                                                      *)
(***************************************************************************)
\* The groups of two or more rows of a rule that share its key.
DuplicateGroups(name, d) ==
    {k \in {RuleKey(name, r) : r \in RuleRows(name, d)} :
        Cardinality({r \in RuleRows(name, d) : RuleKey(name, r) = k}) > 1}

\* The lists put every rule in exactly one of them, a blocked rule with the
\* number of its duplicate groups, which is positive, a ready rule with none.
IsPartition(blockedRules, readyRules, d) ==
    /\ Len(blockedRules) + Len(readyRules) = Len(UNIQUE_CHECKS)
    /\ {blockedRules[i][1] : i \in DOMAIN blockedRules} \cup Range(readyRules)
          = UniqueNames
    /\ \A i \in DOMAIN blockedRules :
          /\ blockedRules[i][2] > 0
          /\ blockedRules[i][2] =
                Cardinality(DuplicateGroups(blockedRules[i][1], d))
    /\ \A name \in Range(readyRules) : DuplicateGroups(name, d) = {}

\* The previous invocation has audited and has committed no write.
AuditedSameTables ==
    /\ runs > 1
    /\ Len(previous.blocked) + Len(previous.ready) = Len(UNIQUE_CHECKS)
    /\ previous.entry = committed

\* C16: an audit pass changes no row and no index, returns every rule in
\* exactly one of blocked (with its positive number of duplicate groups) and
\* ready, and returns the lists of the previous audit when nothing was
\* written in between.
C16_AuditReadOnlyAndStable ==
    [][(pc \in {"precheck", "recheck"} /\ pc' \notin {pc, "crashed"}) =>
          /\ db' = db
          /\ committed' = committed
          /\ indexes' = indexes
          /\ created' = created
          /\ IsPartition(blocked', ready', db)
          /\ (pc = "precheck" /\ AuditedSameTables) =>
                /\ blocked' = previous.blocked
                /\ ready' = previous.ready
      ]_vars

\* A dry run found a rule blocked with one duplicate group and a rule
\* ready, and the dry run after it has returned the same lists.
C16_Witness ==
    /\ runs = 2
    /\ ~apply_changes
    /\ previous.ended = "done"
    /\ pc = "done"
    /\ blocked # <<>> /\ ready # <<>>
    /\ blocked = previous.blocked
    /\ ready = previous.ready

(***************************************************************************)
(* C17                                                                      *)
(***************************************************************************)
\* The rows of a table that a step removes, told by their id.
Deleted(before, after) == {r \in before : r.id \notin IdsOf(after)}

\* Another users row has the email of u, or its non-null student id.
SharesIdentity(users, u) ==
    \E v \in users :
        /\ v.id # u.id
        /\ \/ v.email = u.email
           \/ u.student_id # NULL /\ v.student_id = u.student_id

FactRules ==
    { <<"answers", "uq_answers_attempt_question">>,
      <<"quiz_assignments", "uq_quiz_assignments_quiz_student">>,
      <<"revoked_tokens", "uq_revoked_tokens_jti">>,
      <<"user_token_blocks", "uq_user_token_blocks_user_id">> }

OwnedOnly == {"quizzes", "subjects", "question_bank", "quiz_attempts"}

\* C17: no statement of the auto-fix deletes a users row unless another
\* users row has its email or its non-null student id, at that moment and
\* at the entry of the auto-fix, and a row of that identity survives; none
\* deletes an answers, quiz_assignments, revoked_tokens or user_token_blocks
\* row unless a row with the same uniqueness key survives the statement;
\* and none deletes a row of another table.
C17_NoNonDuplicateLost ==
    [][/\ \A u \in Deleted(db.users, db'.users) :
             /\ SharesIdentity(db.users, u)
             /\ SharesIdentity(initial.users, u)
             /\ \E v \in db'.users :
                   \/ v.email = u.email
                   \/ u.student_id # NULL /\ v.student_id = u.student_id
       /\ \A f \in FactRules :
             \A r \in Deleted(db[f[1]], db'[f[1]]) :
                 \E o \in db'[f[1]] :
                     /\ o \in db[f[1]]
                     /\ RuleKey(f[2], o) = RuleKey(f[2], r)
       /\ \A t \in OwnedOnly : Deleted(db[t], db'[t]) = {}
      ]_vars

\* The auto-fix has merged users and deleted an assignment, and two users
\* without a student id, one of them with an email of its own, are still
\* there.
C17_Witness ==
    /\ pc = "commit_fix"
    /\ Deleted(committed.users, db.users) # {}
    /\ Deleted(committed.quiz_assignments, db.quiz_assignments) # {}
    /\ \E u, v \in db.users :
          /\ u.id # v.id
          /\ u.student_id = NULL /\ v.student_id = NULL
          /\ ~SharesIdentity(committed.users, u)

(***************************************************************************)
(* C18                                                                      *)
(***************************************************************************)
\* The rows of the six referencing tables that name user id.
References(d, id) ==
    UNION {{<<t[1], r.id>> : r \in {x \in d[t[1]] : x[t[2]] = id}} :
              t \in ReferencingColumns}

\* C18: a statement deletes users rows only as the seventh statement of a
\* merge, after the six rewrites, which leave the users table alone; at
\* that step no row of the six referencing tables names a deleted user, and
\* every row that named one when the merge began names the survivor of its
\* key group.
C18_DeleteAfterRewrites ==
    [][/\ Deleted(db.users, db'.users) # {} =>
             /\ pc \in MergePcs
             /\ step = Cardinality(ReferencingColumns) + 1
             /\ \A u \in Deleted(db.users, db'.users) :
                   /\ References(db, u.id) = {}
                   /\ References(db', u.id) = {}
                   /\ References(snapshot, u.id) \subseteq
                         References(db, SurvivorId(db.users, key_column, u.id))
       /\ (pc \in MergePcs /\ pc' = pc) => db'.users = db.users
      ]_vars

\* The email merge has deleted a user that a token block, an assignment and
\* a quiz named when the merge began.
C18_Witness ==
    /\ pc = "merge_student_id"
    /\ step = 1
    /\ \E u \in Deleted(committed.users, db.users) :
          /\ \E r \in committed.user_token_blocks : r.user_id = u.id
          /\ \E r \in committed.quiz_assignments : r.student_id = u.id
          /\ \E r \in committed.quizzes : r.creator_id = u.id

(***************************************************************************)
(* C19                                                                      *)
(***************************************************************************)
\* The user that stands for user id after both merges: the survivor of its
\* email group, then the survivor of that user's student id group among the
\* users the email merge left.
FinalOwner(id) ==
    SurvivorId(snapshot.users, "student_id",
               SurvivorId(committed.users, "email", id))

\* Of the rows of a table that different merged users owned with the same
\* other key columns, the auto-fix leaves exactly the first by recency, now
\* owned by the survivor.
MergedRowsDeduped(table, owner, others, recency) ==
    \A a, b \in committed[table] :
        (/\ a[owner] # b[owner]
         /\ \A i \in DOMAIN others : a[others[i]] = b[others[i]]
         /\ FinalOwner(a[owner]) = FinalOwner(b[owner])) =>
            LET s == FinalOwner(a[owner])
                group == {r \in committed[table] :
                             /\ \A i \in DOMAIN others :
                                   r[others[i]] = a[others[i]]
                             /\ FinalOwner(r[owner]) = s}
                first == FirstByRecency(group, recency)
            IN  {r \in db[table] :
                    /\ \A i \in DOMAIN others : r[others[i]] = a[others[i]]
                    /\ r[owner] = s}
                    = {[first EXCEPT ![owner] = s]}

\* C19: when _run_auto_fix ends, of the quiz_assignments rows that merged
\* users had for the same quiz, and of the user_token_blocks rows that
\* merged users had, exactly one remains, owned by the survivor: the most
\* recent by assigned_at / revoked_before, null last, highest id on ties.
C19_MergeCreatedDuplicatesRemoved ==
    pc = "commit_fix" =>
        /\ MergedRowsDeduped("quiz_assignments", "student_id", <<"quiz_id">>,
                             "assigned_at")
        /\ MergedRowsDeduped("user_token_blocks", "user_id", << >>,
                             "revoked_before")

\* Two users were merged that each had an assignment for the same quiz and
\* a token block; the assignment that remains is the more recent one, which
\* has the lower id and belonged to the survivor or was handed to it.
C19_Witness ==
    /\ pc = "commit_fix"
    /\ \E a, b \in committed.quiz_assignments :
          /\ a.student_id # b.student_id
          /\ a.quiz_id = b.quiz_id
          /\ FinalOwner(a.student_id) = FinalOwner(b.student_id)
          /\ a.id < b.id
          /\ a.assigned_at # NULL /\ b.assigned_at # NULL
          /\ a.assigned_at > b.assigned_at
          /\ a.id \in IdsOf(db.quiz_assignments)
          /\ b.id \notin IdsOf(db.quiz_assignments)
    /\ \E a, b \in committed.user_token_blocks :
          /\ a.user_id # b.user_id
          /\ FinalOwner(a.user_id) = FinalOwner(b.user_id)
          /\ Cardinality(db.user_token_blocks) = 1

====
